---- MODULE Spec2Model ----
(***************************************************************************)
(* Model of the vector index lifecycle of my_knowledge_base/vector_db.py   *)
(* (class VectorizationSystem): construction and load of the persisted     *)
(* index, process_chunks (dedup check, embedding, add, save),              *)
(* save_vector_db and search.                                              *)
(*                                                                         *)
(* A vector is modelled by the text it embeds and the dimension of the     *)
(* model that produced it; the persisted directory is the pair             *)
(* faiss.index / metadata.json.                                            *)
(*                                                                         *)
(* The second part models the way of one document from raw text to chunk   *)
(* records: file_processor.preprocess_text, StructuredTextLoader.load and  *)
(* chunk_and_save_parsed_files of my_knowledge_base/text_chunker.py.  A    *)
(* line is a sequence of characters; each of the four marker strings       *)
(* [SECTION_1], [/SECTION_1], [SECTION_2], [/SECTION_2] is one element.    *)
(***************************************************************************)
EXTENDS Integers, Sequences, FiniteSets, TLC

VARIABLES diskIndex, diskMeta, sys, run, pipe

vdbVars == <<diskIndex, diskMeta, sys, run>>

vars == <<diskIndex, diskMeta, sys, run, pipe>>

----------------------------------------------------------------------------
(* Bounds of the model *)

\* most vectors an index is allowed to grow to
MaxRecords == 3
\* largest k passed to search
MaxK == 3
\* most lines of a raw document
MaxDocLines == 4
\* chunk_size and chunk_overlap of the text splitter, in characters, scaled to
\* the short lines of the model
SliceSize == 2
SliceOverlap == 1

----------------------------------------------------------------------------
(* Data *)

Threads == {1, 2, 3}
Insts == {1, 2}

\* dimensions of the embedding models an instance may be constructed with
EmbeddingDims == {"d384", "d1024"}

Sources == {"a.txt", "b.txt"}
ChunkIds == {"1_1"}

\* one entry of a chunk directory's metadata.json, as text_chunker writes it
ChunkMeta(src, cid) ==
    [chunk_id |-> cid, text |-> <<src, cid>>, metadata |-> [source |-> src]]

Chunks == {ChunkMeta(s, c) : s \in Sources, c \in ChunkIds}

Texts == {c.text : c \in Chunks}

Missing == [kind |-> "missing", chunks |-> <<>>]
Malformed == [kind |-> "malformed", chunks |-> <<>>]
File(cs) == [kind |-> "ok", chunks |-> cs]

ChunkA == ChunkMeta("a.txt", "1_1")
ChunkB == ChunkMeta("b.txt", "1_1")

\* The trees below chunk_dir, in os.listdir order; each per-file directory has
\* its metadata.json absent, unparsable, or holding a list of chunks.
EmptyTree == <<>>
OneFile == <<File(<<ChunkA>>)>>
TwoChunks == <<File(<<ChunkA, ChunkB>>)>>
MalformedFirst == <<Malformed, File(<<ChunkB>>)>>
RepeatedInFile == <<File(<<ChunkA, ChunkA>>)>>
MissingThenTwo == <<Missing, File(<<ChunkA>>), File(<<ChunkB>>)>>
RepeatedAcrossFiles == <<File(<<ChunkA>>), File(<<ChunkA, ChunkB>>)>>

ChunkDirs ==
    {EmptyTree, OneFile, TwoChunks, MalformedFirst, RepeatedInFile,
     MissingThenTwo, RepeatedAcrossFiles}

NoIndexFile == [exists |-> FALSE, d |-> "none", vecs |-> <<>>]
NoMetaFile == [exists |-> FALSE, records |-> <<>>]

NoInput == [some |-> FALSE, input |-> <<>>]
NoRet == [err |-> "", val |-> 0, results |-> <<>>]

NotConstructed ==
    [ready |-> FALSE, dimension |-> "none",
     index |-> [d |-> "none", vecs |-> <<>>], metadata |-> <<>>,
     lastDone |-> NoInput]

Idle ==
    [op |-> "none", pc |-> "idle", inst |-> 1, input |-> <<>>, pos |-> 1,
     pending |-> <<>>, total_chunks |-> 0, ret |-> NoRet,
     disk0 |-> <<NoIndexFile, NoMetaFile>>, mem0 |-> <<<<>>, <<>>>>,
     batch0 |-> <<<<>>, <<>>>>, rerun |-> FALSE, k |-> 0]

Rest == {"idle", "done", "raised"}

\* no document is being processed
NoPipe ==
    [pc |-> "off", raw |-> <<>>, lines |-> <<>>, i |-> 0,
     current_section1 |-> <<>>, current_section2 |-> <<>>,
     current_content |-> <<>>, read_under |-> <<>>, documents |-> <<>>,
     doc_idx |-> 0, chunk_data |-> <<>>, metadata_file |-> <<>>]

----------------------------------------------------------------------------
(* Pure helpers *)

\* embed_batch: one vector per text, in order, of the model's dimension
embed_batch(dimension, texts) ==
    [j \in 1..Len(texts) |-> [dim |-> dimension, of |-> texts[j]]]

\* a dedup test that looks at the most recent record only
AlreadyProcessedLastOnly(metadata, chunk_meta) ==
    /\ metadata # <<>>
    /\ metadata[Len(metadata)].source_path = chunk_meta.metadata.source
    /\ metadata[Len(metadata)].chunk_id = chunk_meta.chunk_id

\* the dedup test of process_chunks against the in-memory metadata
AlreadyProcessed(metadata, chunk_meta) ==
    \E j \in 1..Len(metadata) :
        /\ metadata[j].source_path = chunk_meta.metadata.source
        /\ metadata[j].chunk_id = chunk_meta.chunk_id

\* the record process_chunks builds for a chunk
MetaRecord(chunk_meta) ==
    [text |-> chunk_meta.text, chunk_id |-> chunk_meta.chunk_id,
     source_path |-> chunk_meta.metadata.source]

RECURSIVE NewRecords(_, _)
\* metadata_list: the records of the chunks that pass the dedup test, in order
NewRecords(chunks_metadata, metadata) ==
    IF chunks_metadata = <<>> THEN <<>>
    ELSE LET rest == NewRecords(Tail(chunks_metadata), metadata)
         IN IF AlreadyProcessed(metadata, Head(chunks_metadata))
            THEN rest
            ELSE <<MetaRecord(Head(chunks_metadata))>> \o rest

RECURSIVE Growth(_, _)
\* how many records a run over input adds to metadata when nothing fails
Growth(input, metadata) ==
    IF input = <<>> THEN 0
    ELSE LET list == NewRecords(Head(input).chunks, metadata)
         IN Len(list) + Growth(Tail(input), metadata \o list)

\* what _init_vector_db returns for a model of dimension d; a read of either
\* artifact may raise, which the except clause turns into "keep what is
\* bound so far"
LoadVectorDb(d, indexReads, metaReads) ==
    LET fresh == [index |-> [d |-> d, vecs |-> <<>>], metadata |-> <<>>]
        loaded == [d |-> diskIndex.d, vecs |-> diskIndex.vecs]
    IN IF diskIndex.exists /\ diskMeta.exists
       THEN IF ~indexReads THEN fresh
            ELSE IF ~metaReads THEN [index |-> loaded, metadata |-> <<>>]
            ELSE [index |-> loaded, metadata |-> diskMeta.records]
       ELSE fresh

\* an add that tests each record against the metadata again and leaves out
\* those whose key is already there
AddToVectorDbRechecked(s, vectors, metadata_list) ==
    IF \E j \in 1..Len(vectors) : vectors[j].dim # s.index.d
    THEN [ok |-> FALSE, sys |-> s]
    ELSE LET keep == {j \in 1..Len(metadata_list) :
                        \A m \in 1..Len(s.metadata) :
                           \/ s.metadata[m].source_path # metadata_list[j].source_path
                           \/ s.metadata[m].chunk_id # metadata_list[j].chunk_id}
             new == SelectSeq([j \in 1..Len(metadata_list) |-> j], LAMBDA j : j \in keep)
         IN [ok |-> TRUE,
             sys |-> [s EXCEPT !.index.vecs = @ \o [j \in 1..Len(new) |-> vectors[new[j]].of],
                               !.metadata = @ \o [j \in 1..Len(new) |-> metadata_list[new[j]]]]]

\* _add_to_vector_db: index.add raises on a vector of another dimension,
\* before the metadata is extended
AddToVectorDb(s, vectors, metadata_list) ==
    IF \E j \in 1..Len(vectors) : vectors[j].dim # s.index.d
    THEN [ok |-> FALSE, sys |-> s]
    ELSE [ok |-> TRUE,
          sys |-> [s EXCEPT !.index.vecs = @ \o [j \in 1..Len(vectors) |-> vectors[j].of],
                            !.metadata = @ \o metadata_list]]

\* positions of the index ordered by distance to the query (a vector of the
\* query's own text is at distance 0, any other further away), ties by position
RECURSIVE Positions(_, _, _, _)
Positions(vecs, q, near, from) ==
    IF from > Len(vecs) THEN <<>>
    ELSE (IF (vecs[from] = q) = near THEN <<from>> ELSE <<>>)
         \o Positions(vecs, q, near, from + 1)

\* index.search: k labels, 0-based, -1 where the index has no further vector
FaissSearch(index, q, k) ==
    LET order == Positions(index.vecs, q, TRUE, 1) \o Positions(index.vecs, q, FALSE, 1)
    IN [j \in 1..k |-> IF j <= Len(order) THEN order[j] - 1 ELSE -1]

\* the distance reported for a label
Distance(index, q, idx) == IF index.vecs[idx + 1] = q THEN 0 ELSE 1

RECURSIVE BuildResults(_, _, _, _)
BuildResults(s, q, labels, j) ==
    IF j > Len(labels) THEN <<>>
    ELSE LET idx == labels[j]
         IN (IF idx >= 0
             THEN <<[score |-> Distance(s.index, q, idx),
                     text |-> s.metadata[idx + 1].text,
                     source |-> s.metadata[idx + 1].source_path]>>
             ELSE <<>>)
            \o BuildResults(s, q, labels, j + 1)

\* search(query, k) on instance state s
SearchResult(s, q, k) ==
    IF s.dimension # s.index.d
    THEN [err |-> "AssertionError", val |-> 0, results |-> <<>>]
    ELSE LET labels == FaissSearch(s.index, q, k)
         IN IF \E j \in 1..k : labels[j] >= Len(s.metadata)
            THEN [err |-> "IndexError", val |-> 0, results |-> <<>>]
            ELSE [err |-> "", val |-> 0, results |-> BuildResults(s, q, labels, 1)]

----------------------------------------------------------------------------
(* Operations *)

Running(i) == \E t \in Threads : run[t].pc \notin Rest /\ run[t].inst = i

\* VectorizationSystem(...): a new instance over the persisted directory
Construct(i, d, indexReads, metaReads) ==
    /\ ~Running(i)
    /\ LET db == LoadVectorDb(d, indexReads, metaReads)
       IN sys' = [sys EXCEPT ![i] =
                    [ready |-> TRUE, dimension |-> d, index |-> db.index,
                     metadata |-> db.metadata, lastDone |-> NoInput]]
    /\ run' = [t \in Threads |-> IF run[t].inst = i THEN Idle ELSE run[t]]
    /\ UNCHANGED <<diskIndex, diskMeta>>

AfterDir(input, pos) == IF pos + 1 > Len(input) THEN "save_index" ELSE "loop"

\* process_chunks(chunk_dir) is called
StartProcess(t, i, input) ==
    /\ run[t].pc \in Rest
    /\ sys[i].ready
    /\ Len(sys[i].index.vecs) + Growth(input, sys[i].metadata) <= MaxRecords
    /\ run' = [run EXCEPT ![t] =
                 [Idle EXCEPT !.op = "process",
                              !.pc = IF input = <<>> THEN "save_index" ELSE "loop",
                              !.inst = i, !.input = input,
                              !.disk0 = <<diskIndex, diskMeta>>,
                              !.mem0 = <<sys[i].index.vecs, sys[i].metadata>>,
                              !.rerun = (sys[i].lastDone = [some |-> TRUE, input |-> input])]]
    /\ UNCHANGED <<diskIndex, diskMeta, sys>>

\* the directory loop without the except clause around json.load
ScanDirNoCatch(t) ==
    /\ run[t].pc = "loop"
    /\ LET r == run[t]
           dir == r.input[r.pos]
           list == NewRecords(dir.chunks, sys[r.inst].metadata)
       IN run' = [run EXCEPT ![t] =
                    IF dir.kind = "malformed"
                    THEN [r EXCEPT !.pc = "raised", !.ret.err = "JSONDecodeError"]
                    ELSE IF dir.kind # "ok" \/ list = <<>>
                    THEN [r EXCEPT !.pos = @ + 1, !.pc = AfterDir(r.input, r.pos)]
                    ELSE [r EXCEPT !.pending = list, !.pc = "embed",
                                   !.batch0 = <<sys[r.inst].index.vecs,
                                                sys[r.inst].metadata>>]]
    /\ UNCHANGED <<diskIndex, diskMeta, sys>>

\* one iteration of the directory loop up to the embedding call
ScanDir(t) ==
    /\ run[t].pc = "loop"
    /\ LET r == run[t]
           dir == r.input[r.pos]
           list == NewRecords(dir.chunks, sys[r.inst].metadata)
       IN run' = [run EXCEPT ![t] =
                    IF dir.kind # "ok" \/ list = <<>>
                    THEN [r EXCEPT !.pos = @ + 1, !.pc = AfterDir(r.input, r.pos)]
                    ELSE [r EXCEPT !.pending = list, !.pc = "embed",
                                   !.batch0 = <<sys[r.inst].index.vecs,
                                                sys[r.inst].metadata>>]]
    /\ UNCHANGED <<diskIndex, diskMeta, sys>>

\* embed_batch returned; _add_to_vector_db
EmbedAdd(t) ==
    /\ run[t].pc = "embed"
    /\ LET r == run[t]
           s == sys[r.inst]
           texts == [j \in 1..Len(r.pending) |-> r.pending[j].text]
           added == AddToVectorDb(s, embed_batch(s.dimension, texts), r.pending)
       IN IF added.ok
          THEN /\ sys' = [sys EXCEPT ![r.inst] = added.sys]
               /\ run' = [run EXCEPT ![t] =
                            [r EXCEPT !.total_chunks = @ + Len(texts),
                                      !.pending = <<>>,
                                      !.pos = @ + 1,
                                      !.pc = AfterDir(r.input, r.pos)]]
          ELSE /\ sys' = sys
               /\ run' = [run EXCEPT ![t] =
                            [r EXCEPT !.pc = "raised", !.ret.err = "AssertionError"]]
    /\ UNCHANGED <<diskIndex, diskMeta>>

\* an embedding failure that finds the batch's metadata already appended
EmbedFailAfterExtend(t) ==
    /\ run[t].pc = "embed"
    /\ run' = [run EXCEPT ![t].pc = "raised", ![t].ret.err = "EmbeddingFailure"]
    /\ sys' = [sys EXCEPT ![run[t].inst].metadata = @ \o run[t].pending]
    /\ UNCHANGED <<diskIndex, diskMeta>>

\* embed_batch raised
EmbedFail(t) ==
    /\ run[t].pc = "embed"
    /\ run' = [run EXCEPT ![t].pc = "raised", ![t].ret.err = "EmbeddingFailure"]
    /\ UNCHANGED <<diskIndex, diskMeta, sys>>

\* save_vector_db() is called directly
StartSave(t, i) ==
    /\ run[t].pc \in Rest
    /\ sys[i].ready
    /\ run' = [run EXCEPT ![t] =
                 [Idle EXCEPT !.op = "save", !.pc = "save_index", !.inst = i,
                              !.disk0 = <<diskIndex, diskMeta>>,
                              !.mem0 = <<sys[i].index.vecs, sys[i].metadata>>]]
    /\ UNCHANGED <<diskIndex, diskMeta, sys>>

\* save_vector_db: faiss.write_index
SaveIndex(t) ==
    /\ run[t].pc = "save_index"
    /\ diskIndex' = [exists |-> TRUE, d |-> sys[run[t].inst].index.d,
                     vecs |-> sys[run[t].inst].index.vecs]
    /\ run' = [run EXCEPT ![t].pc = "save_meta"]
    /\ UNCHANGED <<diskMeta, sys>>

\* save_vector_db: json.dump of the metadata; process_chunks then returns
SaveMeta(t) ==
    /\ run[t].pc = "save_meta"
    /\ diskMeta' = [exists |-> TRUE, records |-> sys[run[t].inst].metadata]
    /\ run' = [run EXCEPT ![t].pc = "done", ![t].ret.val = run[t].total_chunks]
    /\ sys' = IF run[t].op = "process"
              THEN [sys EXCEPT ![run[t].inst].lastDone =
                                  [some |-> TRUE, input |-> run[t].input]]
              ELSE sys
    /\ UNCHANGED diskIndex

\* search(query, k)
Search(t, i, q, k) ==
    /\ run[t].pc \in Rest
    /\ sys[i].ready
    /\ LET res == SearchResult(sys[i], q, k)
       IN run' = [run EXCEPT ![t] =
                    [Idle EXCEPT !.op = "search", !.inst = i, !.k = k, !.ret = res,
                                 !.pc = IF res.err = "" THEN "done" ELSE "raised"]]
    /\ UNCHANGED <<diskIndex, diskMeta, sys>>

----------------------------------------------------------------------------
(* Single writer: one instance, one thread *)

Init ==
    /\ diskIndex = NoIndexFile
    /\ diskMeta = NoMetaFile
    /\ sys = [i \in Insts |-> NotConstructed]
    /\ run = [t \in Threads |-> Idle]
    /\ pipe = NoPipe

Next ==
    \/ (\E d \in EmbeddingDims, ir \in BOOLEAN, mr \in BOOLEAN : Construct(1, d, ir, mr))
          /\ UNCHANGED pipe
    \/ (\E input \in ChunkDirs : StartProcess(1, 1, input)) /\ UNCHANGED pipe
    \/ ScanDir(1) /\ UNCHANGED pipe
    \/ EmbedAdd(1) /\ UNCHANGED pipe
    \/ EmbedFail(1) /\ UNCHANGED pipe
    \/ StartSave(1, 1) /\ UNCHANGED pipe
    \/ SaveIndex(1) /\ UNCHANGED pipe
    \/ SaveMeta(1) /\ UNCHANGED pipe
    \/ (\E q \in Texts, k \in 1..MaxK : Search(1, 1, q, k)) /\ UNCHANGED pipe

Spec == Init /\ [][Next]_vars

----------------------------------------------------------------------------
(* Interleaved writers: two instances over the same persisted directory,   *)
(* each constructed once, and threads that each call process_chunks once,  *)
(* on either instance.  The chunk trees hold each key once and every read  *)
(* succeeds.                                                               *)

OtherFile == <<File(<<ChunkB>>)>>

ConcDirs == {OneFile, OtherFile}

NextConc ==
    \/ (\E i \in Insts : ~sys[i].ready /\ Construct(i, "d384", TRUE, TRUE))
          /\ UNCHANGED pipe
    \/ (\E t \in Threads, i \in Insts, input \in ConcDirs :
          run[t].pc = "idle" /\ StartProcess(t, i, input)) /\ UNCHANGED pipe
    \/ (\E t \in Threads : ScanDir(t)) /\ UNCHANGED pipe
    \/ (\E t \in Threads : EmbedAdd(t)) /\ UNCHANGED pipe
    \/ (\E t \in Threads : SaveIndex(t)) /\ UNCHANGED pipe
    \/ (\E t \in Threads : SaveMeta(t)) /\ UNCHANGED pipe

SpecConc == Init /\ [][NextConc]_vars

----------------------------------------------------------------------------
(* From raw text to chunk records *)

\* "yi" is a character of the class [U+4E00 ... U+5341 numerals] of the level-1
\* pattern, "dun" the enumeration comma U+3001 that follows the numerals.
Numerals == {"yi"}
EnumComma == "dun"
Digits == {"1"}
Whitespace == {" "}

Open1 == "[SECTION_1]"
Close1 == "[/SECTION_1]"
Open2 == "[SECTION_2]"
Close2 == "[/SECTION_2]"

\* The lines a raw document is made of.
BlankLine == <<>>
SpacesLine == <<" ">>
ContentLine == <<"x">>
Heading1Line == <<"yi", EnumComma, "x">>
Heading2Line == <<"1", ".", "y">>
BareNumeralLine == <<"yi", EnumComma>>
TaggedLine == <<Open1, "y", " ", Close1>>

RawLines ==
    {BlankLine, SpacesLine, ContentLine, Heading1Line, Heading2Line,
     BareNumeralLine, TaggedLine}

\* text.split('\n') of the raw documents
RawDocs == UNION {[1..n -> RawLines] : n \in 1..MaxDocLines}

\* length of the longest prefix of line made of characters of class
RECURSIVE RunLength(_, _)
RunLength(line, class) ==
    IF line # <<>> /\ Head(line) \in class
    THEN 1 + RunLength(Tail(line), class)
    ELSE 0

\* re.match(r'^(<class>+<sep>)(.+)', line): the two groups, or no match
HeadingMatch(line, class, sep) ==
    LET n == RunLength(line, class)
    IN IF n >= 1 /\ Len(line) >= n + 2 /\ line[n + 1] = sep
       THEN [matched |-> TRUE, group1 |-> SubSeq(line, 1, n + 1),
             group2 |-> SubSeq(line, n + 2, Len(line))]
       ELSE [matched |-> FALSE, group1 |-> <<>>, group2 |-> <<>>]

\* the body of the loop of preprocess_text: the processed line
PreprocessLine(line) ==
    LET match_1 == HeadingMatch(line, Numerals, EnumComma)
        match_2 == HeadingMatch(line, Digits, ".")
    IN IF match_1.matched
       THEN <<Open1>> \o match_1.group1 \o match_1.group2 \o <<Close1>>
       ELSE IF match_2.matched
       THEN <<Open2>> \o match_2.group1 \o match_2.group2 \o <<Close2>>
       ELSE line

\* preprocess_text on the lines of text, giving the lines of its result
preprocess_text(lines) == [j \in 1..Len(lines) |-> PreprocessLine(lines[j])]

\* load_and_save_document: the parsed text is tagged and saved
Preprocess ==
    /\ pipe.pc = "raw"
    /\ pipe' = [pipe EXCEPT !.lines = preprocess_text(pipe.raw), !.pc = "parsed"]
    /\ UNCHANGED vdbVars

\* section_pattern.match(line) for '^<open>(.+?)<close>$': the group, or no
\* match.  The group is lazy but anchored by $, so it is all that lies between
\* the opening marker at the start and the closing marker at the end.
SectionMatch(line, open, close) ==
    IF Len(line) >= 3 /\ line[1] = open /\ line[Len(line)] = close
    THEN [matched |-> TRUE, group1 |-> SubSeq(line, 2, Len(line) - 1)]
    ELSE [matched |-> FALSE, group1 |-> <<>>]

RECURSIVE LStrip(_)
LStrip(s) ==
    IF s # <<>> /\ Head(s) \in Whitespace THEN LStrip(Tail(s)) ELSE s

RECURSIVE RStrip(_)
RStrip(s) ==
    IF s # <<>> /\ s[Len(s)] \in Whitespace
    THEN RStrip(SubSeq(s, 1, Len(s) - 1))
    ELSE s

\* str.strip()
Strip(s) == RStrip(LStrip(s))

\* '\n'.join(lines)
RECURSIVE Join(_)
Join(lines) ==
    IF lines = <<>> THEN <<>>
    ELSE IF Len(lines) = 1 THEN lines[1]
    ELSE lines[1] \o <<"\n">> \o Join(Tail(lines))

\* Document(page_content, metadata) built from the buffer when line i is
\* reached.  content_lines and read_under are history: the buffered lines and
\* the section path that was current when each of them was read.
NewDocument(p, i) ==
    [page_content |-> Join(p.current_content),
     section1 |-> p.current_section1,
     section2 |-> p.current_section2,
     start_line |-> i - Len(p.current_content),
     end_line |-> i - 1,
     content_lines |-> p.current_content,
     read_under |-> p.read_under]

\* a flush that emits a document for an empty buffer too
FlushAlways(p, i) ==
    [p EXCEPT !.documents = Append(@, NewDocument(p, i)),
              !.current_content = <<>>,
              !.read_under = <<>>]

\* "save the current block (if it has content)"
Flush(p, i) ==
    IF p.current_content # <<>>
    THEN [p EXCEPT !.documents = Append(@, NewDocument(p, i)),
                   !.current_content = <<>>,
                   !.read_under = <<>>]
    ELSE p

\* a level-1 marker that leaves the level-2 title in force
EnterSection1KeepSection2(p, title) ==
    [p EXCEPT !.current_section1 = title]

\* the assignments after a level-1 marker
EnterSection1(p, title) ==
    [p EXCEPT !.current_section1 = title, !.current_section2 = <<>>]

\* the assignment after a level-2 marker
EnterSection2(p, title) ==
    [p EXCEPT !.current_section2 = title]

\* StructuredTextLoader.load up to the loop: the tagged file is read and split
StartLoad ==
    /\ pipe.pc = "parsed"
    /\ pipe' = [pipe EXCEPT !.pc = "scan", !.i = 0,
                            !.current_section1 = <<>>,
                            !.current_section2 = <<>>,
                            !.current_content = <<>>,
                            !.read_under = <<>>,
                            !.documents = <<>>]
    /\ UNCHANGED vdbVars

\* one iteration of the loop over enumerate(lines); pipe.i is the index i
LoadLine ==
    /\ pipe.pc = "scan"
    /\ pipe.i < Len(pipe.lines)
    /\ LET i == pipe.i
           line == pipe.lines[i + 1]
           section1_match == SectionMatch(line, Open1, Close1)
           section2_match == SectionMatch(line, Open2, Close2)
           step == [pipe EXCEPT !.i = i + 1]
       IN pipe' =
             IF section1_match.matched
             THEN EnterSection1(Flush(step, i), Strip(section1_match.group1))
             ELSE IF section2_match.matched
             THEN EnterSection2(Flush(step, i), Strip(section2_match.group1))
             ELSE IF Strip(line) # <<>>
             THEN [step EXCEPT
                     !.current_content = Append(@, line),
                     !.read_under = Append(@, <<pipe.current_section1,
                                                pipe.current_section2>>)]
             ELSE step
    /\ UNCHANGED vdbVars

\* after the loop: the last block is emitted and documents is returned
LoadEnd ==
    /\ pipe.pc = "scan"
    /\ pipe.i = Len(pipe.lines)
    /\ pipe' = [Flush(pipe, Len(pipe.lines)) EXCEPT !.pc = "split",
                                                    !.doc_idx = 0,
                                                    !.chunk_data = <<>>]
    /\ UNCHANGED vdbVars

\* text_splitter.split_documents([doc]): the start indices of the slices of a
\* body of n characters.  A slice is at most SliceSize characters long and
\* shares SliceOverlap characters with the slice before it; the separators the
\* splitter prefers to cut at are not modelled.
RECURSIVE SliceStarts(_, _)
SliceStarts(n, from) ==
    IF from + SliceSize >= n
    THEN <<from>>
    ELSE <<from>> \o SliceStarts(n, from + (SliceSize - SliceOverlap))

\* the chunks of split_documents([doc]): page_content and start_index
Split(body) ==
    LET starts == SliceStarts(Len(body), 0)
    IN [k \in 1..Len(starts) |->
          [page_content |->
               SubSeq(body, starts[k] + 1,
                      IF starts[k] + SliceSize < Len(body)
                      THEN starts[k] + SliceSize ELSE Len(body)),
           start_index |-> starts[k]]]

\* a prefix that names the level-1 title alone
title_prefix_section1_only(section1, section2) ==
    IF section1 # <<>> THEN section1 \o <<"\n", "\n">> ELSE <<>>

\* title_prefix of a chunk
title_prefix(section1, section2) ==
    IF section1 # <<>> /\ section2 # <<>>
    THEN section1 \o <<"-">> \o section2 \o <<"\n", "\n">>
    ELSE IF section1 # <<>>
    THEN section1 \o <<"\n", "\n">>
    ELSE <<>>

\* chunk_info of chunk number chunk_idx (from 0) of document number doc_idx
ChunkInfo(doc, doc_idx, chunk, chunk_idx) ==
    [chunk_id |-> <<doc_idx + 1, chunk_idx + 1>>,
     text |-> title_prefix(doc.section1, doc.section2) \o chunk.page_content,
     section1 |-> doc.section1,
     section2 |-> doc.section2,
     start_index |-> chunk.start_index]

\* one iteration of the loop over enumerate(documents)
ChunkDoc ==
    /\ pipe.pc = "split"
    /\ pipe.doc_idx < Len(pipe.documents)
    /\ LET doc == pipe.documents[pipe.doc_idx + 1]
           chunks == Split(doc.page_content)
       IN pipe' = [pipe EXCEPT
                     !.doc_idx = @ + 1,
                     !.chunk_data = @ \o
                        [k \in 1..Len(chunks) |->
                            ChunkInfo(doc, pipe.doc_idx, chunks[k], k - 1)]]
    /\ UNCHANGED vdbVars

\* json.dump(chunk_data) into the metadata.json of the file
SaveChunks ==
    /\ pipe.pc = "split"
    /\ pipe.doc_idx = Len(pipe.documents)
    /\ pipe' = [pipe EXCEPT !.metadata_file = pipe.chunk_data, !.pc = "done"]
    /\ UNCHANGED vdbVars

\* a raw document was parsed; no vector database is involved yet
InitChunk ==
    /\ diskIndex = NoIndexFile
    /\ diskMeta = NoMetaFile
    /\ sys = [i \in Insts |-> NotConstructed]
    /\ run = [t \in Threads |-> Idle]
    /\ \E raw \in RawDocs : pipe = [NoPipe EXCEPT !.pc = "raw", !.raw = raw]

NextChunk ==
    \/ Preprocess
    \/ StartLoad
    \/ LoadLine
    \/ LoadEnd
    \/ ChunkDoc
    \/ SaveChunks

SpecChunk == InitChunk /\ [][NextChunk]_vars

----------------------------------------------------------------------------
(* Properties *)

IsPrefix(a, b) == Len(a) <= Len(b) /\ \A j \in 1..Len(a) : a[j] = b[j]

ProcessRuns == {t \in Threads : run[t].op = "process"}
Searches == {t \in Threads : run[t].op = "search"}

\* C1: in every state of a constructed VectorizationSystem the index holds as
\* many vectors as there are metadata records, and position j of both is the
\* same record (the vector at j embeds the text of metadata[j]).
C1_ParallelLists ==
    \A i \in Insts : sys[i].ready =>
        /\ Len(sys[i].index.vecs) = Len(sys[i].metadata)
        /\ \A j \in 1..Len(sys[i].metadata) :
              sys[i].index.vecs[j] = sys[i].metadata[j].text

\* C2: no two records of the in-memory metadata share (source_path, chunk_id).
C2_UniqueKeys ==
    \A i \in Insts : \A j, l \in 1..Len(sys[i].metadata) :
        (/\ sys[i].metadata[j].source_path = sys[i].metadata[l].source_path
         /\ sys[i].metadata[j].chunk_id = sys[i].metadata[l].chunk_id) => j = l

\* C3: a process_chunks run over the input that the previous completed run of
\* the same instance processed returns 0 and leaves index and metadata as they
\* were when it started.
C3_SecondRunAddsNothing ==
    \A t \in ProcessRuns : (run[t].pc = "done" /\ run[t].rerun) =>
        /\ run[t].ret.val = 0
        /\ sys[run[t].inst].index.vecs = run[t].mem0[1]
        /\ sys[run[t].inst].metadata = run[t].mem0[2]

C3_Witness ==
    \E t \in ProcessRuns :
        /\ run[t].pc = "done" /\ run[t].rerun
        /\ run[t].input = RepeatedAcrossFiles
        /\ Len(sys[run[t].inst].metadata) = 2

\* C4: when embed_batch raises inside process_chunks the call ends with that
\* failure, index and metadata are what they were before the failing batch,
\* and faiss.index and metadata.json are what they were when the call began.
C4_EmbedFailureCommitsNothing ==
    \A t \in ProcessRuns :
        (run[t].pc = "raised" /\ run[t].ret.err = "EmbeddingFailure") =>
            /\ sys[run[t].inst].index.vecs = run[t].batch0[1]
            /\ sys[run[t].inst].metadata = run[t].batch0[2]
            /\ Len(sys[run[t].inst].metadata) = Len(run[t].mem0[2]) + run[t].total_chunks
            /\ <<diskIndex, diskMeta>> = run[t].disk0

C4_Witness ==
    \E t \in ProcessRuns :
        /\ run[t].pc = "raised" /\ run[t].ret.err = "EmbeddingFailure"
        /\ run[t].total_chunks = 1
        /\ run[t].pending # <<>>
        /\ diskMeta.exists /\ diskMeta.records # <<>>

\* C5: a constructed instance never holds an index whose dimension differs
\* from the dimension of its embedding model.
C5_LoadedDimensionMatches ==
    \A i \in Insts : sys[i].ready => sys[i].index.d = sys[i].dimension

\* C7: the persisted store is append-only: every step leaves each persisted
\* vector and each persisted metadata record at its position.
C7_AppendOnly ==
    [][/\ IsPrefix(diskIndex.vecs, diskIndex'.vecs)
       /\ IsPrefix(diskMeta.records, diskMeta'.records)]_vars

\* C8: search(query, k) on an index of n < k vectors returns without error
\* exactly n results, the results being the stored records, one each.
C8_SearchFewerThanK ==
    \A t \in Searches :
        LET s == sys[run[t].inst]
            n == Len(s.index.vecs)
        IN run[t].k > n =>
            /\ run[t].ret.err = ""
            /\ Len(run[t].ret.results) = n
            /\ \A j \in 1..n : \E x \in 1..Len(run[t].ret.results) :
                  /\ run[t].ret.results[x].text = s.metadata[j].text
                  /\ run[t].ret.results[x].source = s.metadata[j].source_path

\* C9: search on an index of zero vectors (a freshly created one when nothing
\* is persisted, or a loaded empty one) returns the empty list without error.
C9_SearchEmptyIndex ==
    \A t \in Searches :
        Len(sys[run[t].inst].index.vecs) = 0 =>
            run[t].ret.err = "" /\ run[t].ret.results = <<>>

\* C6: with interleaved runs the batch chosen by the dedup test is added as it
\* is, whatever another run added in between; the witness is a persisted
\* metadata.json that holds one key twice and lacks a record a completed run
\* counted as added.
C6_BatchAddedUnchecked ==
    [][\A t \in Threads :
          (run[t].pc = "embed" /\ run'[t].pc \in {"loop", "save_index"}) =>
              sys'[run[t].inst].metadata = sys[run[t].inst].metadata \o run[t].pending]_vars

PersistedDuplicate ==
    \E j, l \in 1..Len(diskMeta.records) :
        /\ j # l
        /\ diskMeta.records[j].source_path = diskMeta.records[l].source_path
        /\ diskMeta.records[j].chunk_id = diskMeta.records[l].chunk_id

PersistedLost ==
    \E t \in ProcessRuns :
        /\ run[t].pc = "done"
        /\ run[t].ret.val = 1
        /\ ~AlreadyProcessed(diskMeta.records, run[t].input[1].chunks[1])

C6_Witness == PersistedDuplicate /\ PersistedLost

HasMalformed(input) == \E p \in 1..Len(input) : input[p].kind = "malformed"

\* C10: a run over a tree with a malformed metadata.json never ends at that
\* directory; when the run ends normally it counted only records it added,
\* every chunk of the readable directories is in the metadata, and the index
\* and metadata were saved.
C10_MalformedSkipped ==
    \A t \in ProcessRuns : HasMalformed(run[t].input) =>
        LET r == run[t]
            s == sys[r.inst]
        IN /\ r.pc = "raised" => r.input[r.pos].kind = "ok"
           /\ r.pc = "done" =>
                /\ r.ret.val = Len(s.metadata) - Len(r.mem0[2])
                /\ \A p \in 1..Len(r.input) : \A c \in 1..Len(r.input[p].chunks) :
                      AlreadyProcessed(s.metadata, r.input[p].chunks[c])
                /\ diskIndex.exists /\ diskIndex.vecs = s.index.vecs
                /\ diskMeta.exists /\ diskMeta.records = s.metadata

C10_Witness ==
    \E t \in ProcessRuns :
        /\ run[t].pc = "done"
        /\ run[t].input = MalformedFirst
        /\ run[t].ret.val = 1
        /\ diskMeta.records = <<MetaRecord(ChunkB)>>

\* the raw text of the document has been tagged
Tagged == pipe.pc \notin {"off", "raw"}

IsHeading1(line) == HeadingMatch(line, Numerals, EnumComma).matched

IsHeading2(line) == ~IsHeading1(line) /\ HeadingMatch(line, Digits, ".").matched

\* number of occurrences of the character tok in the lines
Occurrences(lines, tok) ==
    Cardinality({jk \in UNION {{<<j, k>> : k \in 1..Len(lines[j])} :
                                  j \in 1..Len(lines)} :
                    lines[jk[1]][jk[2]] = tok})

\* number of lines that satisfy Test
HeadingCount(lines, Test(_)) ==
    Cardinality({j \in 1..Len(lines) : Test(lines[j])})

\* every input line gives one output line at its place: a level-1 heading in
\* one level-1 marker pair, otherwise a level-2 heading in one level-2 marker
\* pair, any other line unchanged
LineByLine ==
    /\ Len(pipe.lines) = Len(pipe.raw)
    /\ \A j \in 1..Len(pipe.raw) :
          pipe.lines[j] =
             IF IsHeading1(pipe.raw[j])
             THEN <<Open1>> \o pipe.raw[j] \o <<Close1>>
             ELSE IF IsHeading2(pipe.raw[j])
             THEN <<Open2>> \o pipe.raw[j] \o <<Close2>>
             ELSE pipe.raw[j]

\* the output holds as many level-1 (level-2) marker pairs as the input holds
\* level-1 (level-2) heading lines
MarkerPairsCountHeadings ==
    /\ Occurrences(pipe.lines, Open1) = HeadingCount(pipe.raw, IsHeading1)
    /\ Occurrences(pipe.lines, Close1) = HeadingCount(pipe.raw, IsHeading1)
    /\ Occurrences(pipe.lines, Open2) = HeadingCount(pipe.raw, IsHeading2)
    /\ Occurrences(pipe.lines, Close2) = HeadingCount(pipe.raw, IsHeading2)

IsMarker1(line) == SectionMatch(line, Open1, Close1).matched

IsMarker2(line) == ~IsMarker1(line) /\ SectionMatch(line, Open2, Close2).matched

IsBlank(line) == \A k \in 1..Len(line) : line[k] \in Whitespace

IsContent(line) == ~IsMarker1(line) /\ ~IsMarker2(line) /\ ~IsBlank(line)

\* the title a marker line carries
TitleOf(line) == Strip(SubSeq(line, 2, Len(line) - 1))

\* this step emits the buffered lines, if there are any, as one group under
\* the path in force before the step
FlushedUnderPathInForce ==
    IF pipe.current_content = <<>>
    THEN pipe'.documents = pipe.documents
    ELSE /\ Len(pipe'.documents) = Len(pipe.documents) + 1
         /\ SubSeq(pipe'.documents, 1, Len(pipe.documents)) = pipe.documents
         /\ LET doc == pipe'.documents[Len(pipe'.documents)]
            IN /\ doc.section1 = pipe.current_section1
               /\ doc.section2 = pipe.current_section2
               /\ doc.content_lines = pipe.current_content

\* every group carries the path that was current when each of its lines was read
GroupsTaggedAsRead(documents) ==
    \A d \in 1..Len(documents) :
       /\ Len(documents[d].read_under) = Len(documents[d].content_lines)
       /\ \A k \in 1..Len(documents[d].read_under) :
             documents[d].read_under[k] =
                <<documents[d].section1, documents[d].section2>>

\* what the scan of one line does to the path and to the groups
ScanOneLine ==
    LET line == pipe.lines[pipe.i + 1]
    IN /\ IsMarker1(line) =>
             /\ FlushedUnderPathInForce
             /\ pipe'.current_section1 = TitleOf(line)
             /\ pipe'.current_section2 = <<>>
       /\ IsMarker2(line) =>
             /\ FlushedUnderPathInForce
             /\ pipe'.current_section1 = pipe.current_section1
             /\ pipe'.current_section2 = TitleOf(line)
       /\ ~IsMarker1(line) /\ ~IsMarker2(line) =>
             /\ pipe'.documents = pipe.documents
             /\ pipe'.current_section1 = pipe.current_section1
             /\ pipe'.current_section2 = pipe.current_section2

\* C13: while load scans the lines, every content group is tagged with the
\* section path that was active when its lines were read: a level-1 marker
\* flushes the buffered lines under the path in force before it, then sets
\* section1 to the new title and section2 to empty; a level-2 marker flushes
\* the same way and sets section2 only; any other line leaves the path alone.
C13_GroupsTaggedWithActivePath ==
    [][pipe.pc = "scan" =>
          /\ GroupsTaggedAsRead(pipe'.documents)
          /\ pipe.i < Len(pipe.lines) => ScanOneLine
          /\ pipe.i = Len(pipe.lines) => FlushedUnderPathInForce]_vars

\* a group under a level-2 title is followed by a group under a new level-1
\* title with no level-2 title
C13_Witness ==
    \E d \in 1..Len(pipe.documents) - 1 :
       /\ pipe.documents[d].section2 # <<>>
       /\ pipe.documents[d + 1].section1 # <<>>
       /\ pipe.documents[d + 1].section1 # pipe.documents[d].section1
       /\ pipe.documents[d + 1].section2 = <<>>

\* load has returned its documents
Loaded == pipe.pc \in {"split", "done"}

\* the lines that open a group: content lines whose nearest non-blank line
\* before them, if there is one, is a marker
GroupOpeners(lines) ==
    {j \in 1..Len(lines) :
        /\ IsContent(lines[j])
        /\ \A k \in 1..(j - 1) :
              IsContent(lines[k]) =>
                 \E m \in (k + 1)..(j - 1) :
                    IsMarker1(lines[m]) \/ IsMarker2(lines[m])}

\* C14: load never emits a content group with zero content lines: markers in
\* direct succession or separated only by blank lines give no group between
\* them (there are as many groups as runs of content lines that markers
\* delimit), blank lines are never part of a group, and a document with no
\* marker and at least one non-blank line gives exactly one group, with empty
\* section1 and section2.
C14_NoEmptyGroup ==
    /\ \A d \in 1..Len(pipe.documents) :
          /\ pipe.documents[d].content_lines # <<>>
          /\ \A k \in 1..Len(pipe.documents[d].content_lines) :
                ~IsBlank(pipe.documents[d].content_lines[k])
    /\ Loaded =>
          /\ Len(pipe.documents) = Cardinality(GroupOpeners(pipe.lines))
          /\ (/\ \A j \in 1..Len(pipe.lines) :
                    ~IsMarker1(pipe.lines[j]) /\ ~IsMarker2(pipe.lines[j])
              /\ \E j \in 1..Len(pipe.lines) : ~IsBlank(pipe.lines[j]))
             => /\ Len(pipe.documents) = 1
                /\ pipe.documents[1].section1 = <<>>
                /\ pipe.documents[1].section2 = <<>>

\* a loaded document that starts with two markers separated by blank lines
\* only: its one group is the content after the second marker
C14_Witness ==
    /\ Loaded
    /\ Len(pipe.documents) = 1
    /\ \E b \in 3..(Len(pipe.lines) - 1) :
          /\ IsMarker1(pipe.lines[1])
          /\ IsMarker2(pipe.lines[b])
          /\ \A m \in 2..(b - 1) : IsBlank(pipe.lines[m])
          /\ IsContent(pipe.lines[b + 1])
          /\ pipe.documents[1].content_lines = <<pipe.lines[b + 1]>>

\* the prefix of a chunk of a group: both titles when both are set, the
\* level-1 title when it alone is set, nothing otherwise
SectionPathPrefix(doc) ==
    IF doc.section1 # <<>> /\ doc.section2 # <<>>
    THEN doc.section1 \o <<"-">> \o doc.section2 \o <<"\n", "\n">>
    ELSE IF doc.section1 # <<>> /\ doc.section2 = <<>>
    THEN doc.section1 \o <<"\n", "\n">>
    ELSE <<>>

\* the chunk records written for document number d
ChunksOf(d) ==
    SelectSeq(pipe.chunk_data, LAMBDA c : c.chunk_id[1] = d)

\* C11: every chunk written by chunk_and_save_parsed_files has text equal to
\* the section-path prefix followed by the body slice; the prefix is
\* "section1-section2\n\n" when both titles are set, "section1\n\n" when the
\* level-1 title alone is set and empty otherwise (a level-2 title without a
\* level-1 title included), and every slice of a split group carries it.
C11_PrefixOnEverySlice ==
    \A d \in 1..pipe.doc_idx :
       LET doc == pipe.documents[d]
           slices == Split(doc.page_content)
           written == ChunksOf(d)
       IN /\ Len(written) = Len(slices)
          /\ \A k \in 1..Len(written) :
                /\ written[k].chunk_id = <<d, k>>
                /\ written[k].text =
                      SectionPathPrefix(doc) \o slices[k].page_content

\* a second slice of a group that lies under a level-1 and a level-2 title
C11_Witness ==
    \E n \in 1..Len(pipe.chunk_data) :
       /\ pipe.chunk_data[n].chunk_id[2] >= 2
       /\ pipe.chunk_data[n].section1 # <<>>
       /\ pipe.chunk_data[n].section2 # <<>>
       /\ pipe.chunk_data[n].text # <<>>

====
